---- MODULE Spec2Model ----
(***************************************************************************)
(* GLB container reading and Draco buffer extraction, as implemented by    *)
(*   src/util/extract_draco_binary.py  (class GLBParser)                   *)
(*   src/util/extract_glb_json.py      (extract_json_from_glb)             *)
(*                                                                         *)
(* A file is a sequence of bytes (0..255).  Python values are modelled as  *)
(* tagged records: [t |-> "none"|"int"|"str"|"arr"|"obj", v |-> ...]; a    *)
(* dict is the sequence of its <<key, value>> pairs in insertion order,    *)
(* keys being byte strings.  bytes-or-None is [some |-> BOOLEAN, val].     *)
(***************************************************************************)
EXTENDS Integers, Sequences, FiniteSets, TLC

VARIABLES
    file,                \* the bytes behind glb_path
    orig,                \* how the file was produced (never read by the code)
    pc,                  \* GLBParser: "new", "parsed" (parse returned), "failed" (parse raised)
    err,                 \* the exception parse raised, "" when none
    fpos,                \* f.tell() when parse returned or raised
    header,              \* GLBParser.header
    json_chunk,          \* GLBParser.json_chunk
    binary_chunk,        \* GLBParser.binary_chunk
    total_length,        \* parse's local, -1 while unread
    json_chunk_length,   \* parse's local, -1 while unread
    binary_chunk_length, \* parse's local, -1 while unread
    ret                  \* the last call other than parse: its name, argument and outcome

vars == <<file, orig, pc, err, fpos, header, json_chunk, binary_chunk,
          total_length, json_chunk_length, binary_chunk_length, ret>>

-----------------------------------------------------------------------------
(* Bounds of the model *)

\* longest binary payload a producer writes
MaxBin == 3
\* largest byteOffset / byteLength a buffer view declares
MaxOff == 3
\* most meshes in a scene description
MaxMeshes == 2
\* most primitives in a mesh
MaxPrims == 2

-----------------------------------------------------------------------------
(* Python values *)

None == [t |-> "none", v |-> 0]
JInt(n) == [t |-> "int", v |-> n]
JStr(s) == [t |-> "str", v |-> s]
JArr(a) == [t |-> "arr", v |-> a]
JObj(m) == [t |-> "obj", v |-> m]
EmptyDict == JObj(<<>>)
EmptyList == JArr(<<>>)

NoBytes == [some |-> FALSE, val |-> <<>>]
Bytes(b) == [some |-> TRUE, val |-> b]

\* bool(x)
Truthy(x) ==
    CASE x.t = "none" -> FALSE
      [] x.t = "int" -> x.v # 0
      [] OTHER -> Len(x.v) > 0

\* key in d
HasKey(d, k) == \E i \in 1..Len(d.v) : d.v[i][1] = k

\* d.get(k, default)
Get(d, k, default) ==
    IF HasKey(d, k)
    THEN d.v[CHOOSE i \in 1..Len(d.v) : d.v[i][1] = k][2]
    ELSE default

\* d[k] = x on a dict: an existing key keeps its place
DictSet(m, k, x) ==
    IF \E i \in 1..Len(m) : m[i][1] = k
    THEN [i \in 1..Len(m) |-> IF m[i][1] = k THEN <<k, x>> ELSE m[i]]
    ELSE Append(m, <<k, x>>)

Min(a, b) == IF a < b THEN a ELSE b
Max(a, b) == IF a > b THEN a ELSE b

\* b[lo:hi] on bytes, with Python's treatment of negative and oversized bounds
PySlice(b, lo, hi) ==
    LET n == Len(b)
        l == IF lo < 0 THEN Max(lo + n, 0) ELSE Min(lo, n)
        h == IF hi < 0 THEN Max(hi + n, 0) ELSE Min(hi, n)
    IN  IF l >= h THEN <<>> ELSE SubSeq(b, l + 1, h)

-----------------------------------------------------------------------------
(* Byte strings of the format and of the scene description *)

GLTF == <<103, 108, 84, 70>>                    \* b'glTF'
JSON == <<74, 83, 79, 78>>                      \* b'JSON'
BIN0 == <<66, 73, 78, 0>>                       \* b'BIN\x00'
K_meshes == <<109, 101, 115, 104, 101, 115>>
K_primitives == <<112, 114, 105, 109, 105, 116, 105, 118, 101, 115>>
K_extensions == <<101, 120, 116, 101, 110, 115, 105, 111, 110, 115>>
K_draco == <<75, 72, 82, 95, 100, 114, 97, 99, 111, 95, 109, 101, 115, 104, 95,
             99, 111, 109, 112, 114, 101, 115, 115, 105, 111, 110>>
K_bufferView == <<98, 117, 102, 102, 101, 114, 86, 105, 101, 119>>
K_attributes == <<97, 116, 116, 114, 105, 98, 117, 116, 101, 115>>
K_indices == <<105, 110, 100, 105, 99, 101, 115>>
K_bufferViews == <<98, 117, 102, 102, 101, 114, 86, 105, 101, 119, 115>>
K_buffer == <<98, 117, 102, 102, 101, 114>>
K_byteOffset == <<98, 121, 116, 101, 79, 102, 102, 115, 101, 116>>
K_byteLength == <<98, 121, 116, 101, 76, 101, 110, 103, 116, 104>>
K_POSITION == <<80, 79, 83, 73, 84, 73, 79, 78>>

-----------------------------------------------------------------------------
(* struct.unpack('<I', b)[0] and its inverse *)

\* struct.unpack('<I', b): b must be exactly 4 bytes, else struct.error
CanUnpack(b) == Len(b) = 4
UnpackU32(b) == b[1] + 256 * b[2] + 65536 * b[3] + 16777216 * b[4]

\* struct.pack('<I', n)
PackU32(n) ==
    << n % 256, (n \div 256) % 256, (n \div 65536) % 256, (n \div 16777216) % 256 >>

\* f.read(n) at position p: the bytes there are, at most n
Read(f, p, n) == SubSeq(f, p + 1, Min(p + n, Len(f)))

\* bytes.rstrip(b'\x00')
RECURSIVE RStripNull(_)
RStripNull(b) ==
    IF Len(b) > 0 /\ b[Len(b)] = 0 THEN RStripNull(SubSeq(b, 1, Len(b) - 1)) ELSE b

-----------------------------------------------------------------------------
(* json.loads on the bytes the model writes: objects, arrays, integers and  *)
(* strings without escapes.  A result is [ok, val, end]; end is the 1-based *)
(* index of the first byte not consumed.                                    *)

JFail == [ok |-> FALSE, val |-> None, end |-> 0]
JOk(x, e) == [ok |-> TRUE, val |-> x, end |-> e]

IsWs(c) == c \in {32, 9, 10, 13}
IsDigit(c) == c >= 48 /\ c <= 57

RECURSIVE SkipWs(_, _)
SkipWs(s, i) == IF i <= Len(s) /\ IsWs(s[i]) THEN SkipWs(s, i + 1) ELSE i

RECURSIVE DigitsEnd(_, _)
DigitsEnd(s, i) == IF i <= Len(s) /\ IsDigit(s[i]) THEN DigitsEnd(s, i + 1) ELSE i

RECURSIVE DigitsVal(_, _, _, _)
DigitsVal(s, i, j, acc) ==
    IF i >= j THEN acc ELSE DigitsVal(s, i + 1, j, 10 * acc + (s[i] - 48))

\* NUMBER_RE: -?(0|[1-9]\d*), at s[i]
ScanNumber(s, i) ==
    LET neg == s[i] = 45
        d == IF neg THEN i + 1 ELSE i
    IN  IF d > Len(s) \/ ~IsDigit(s[d]) THEN JFail
        ELSE LET e == IF s[d] = 48 THEN d + 1 ELSE DigitsEnd(s, d)
                 n == DigitsVal(s, d, e, 0)
             IN  JOk(JInt(IF neg THEN 0 - n ELSE n), e)

\* the closing quote of the string whose opening quote is before s[i]; 0 if
\* the string is unterminated or holds a control character (strict mode)
RECURSIVE StringEnd(_, _)
StringEnd(s, i) ==
    IF i > Len(s) THEN 0
    ELSE IF s[i] = 34 THEN i
    ELSE IF s[i] < 32 \/ s[i] = 92 THEN 0
    ELSE StringEnd(s, i + 1)

\* py_scanstring, s[i] being the opening quote
ScanString(s, i) ==
    LET q == StringEnd(s, i + 1)
    IN  IF q = 0 THEN JFail ELSE JOk(JStr(SubSeq(s, i + 1, q - 1)), q + 1)

RECURSIVE ScanOnce(_, _), ScanArray(_, _, _), ScanObject(_, _, _)

\* scan_once(s, idx): one value starting exactly at s[i]
ScanOnce(s, i) ==
    IF i > Len(s) THEN JFail
    ELSE IF s[i] = 34 THEN ScanString(s, i)
    ELSE IF s[i] = 123 THEN
        LET j == SkipWs(s, i + 1)
        IN  IF j > Len(s) THEN JFail
            ELSE IF s[j] = 125 THEN JOk(EmptyDict, j + 1)
            ELSE ScanObject(s, j, <<>>)
    ELSE IF s[i] = 91 THEN
        LET j == SkipWs(s, i + 1)
        IN  IF j > Len(s) THEN JFail
            ELSE IF s[j] = 93 THEN JOk(EmptyList, j + 1)
            ELSE ScanArray(s, j, <<>>)
    ELSE IF s[i] = 45 \/ IsDigit(s[i]) THEN ScanNumber(s, i)
    ELSE JFail

\* JSONArray's loop: a value at s[i], then ',' or ']'
ScanArray(s, i, acc) ==
    LET x == ScanOnce(s, i)
    IN  IF ~x.ok THEN JFail
        ELSE LET j == SkipWs(s, x.end)
             IN  IF j > Len(s) THEN JFail
                 ELSE IF s[j] = 93 THEN JOk(JArr(Append(acc, x.val)), j + 1)
                 ELSE IF s[j] # 44 THEN JFail
                 ELSE ScanArray(s, SkipWs(s, j + 1), Append(acc, x.val))

\* JSONObject's loop: "key" : value at s[i], then ',' or '}'
ScanObject(s, i, acc) ==
    IF i > Len(s) \/ s[i] # 34 THEN JFail
    ELSE LET k == ScanString(s, i)
         IN  IF ~k.ok THEN JFail
             ELSE LET c == SkipWs(s, k.end)
                  IN  IF c > Len(s) \/ s[c] # 58 THEN JFail
                      ELSE LET x == ScanOnce(s, SkipWs(s, c + 1))
                           IN  IF ~x.ok THEN JFail
                               ELSE LET j == SkipWs(s, x.end)
                                        m == DictSet(acc, k.val.v, x.val)
                                    IN  IF j > Len(s) THEN JFail
                                        ELSE IF s[j] = 125 THEN JOk(JObj(m), j + 1)
                                        ELSE IF s[j] # 44 THEN JFail
                                        ELSE ScanObject(s, SkipWs(s, j + 1), m)

\* json.loads(s): leading whitespace, one value, trailing whitespace, nothing else
json_loads(s) ==
    LET x == ScanOnce(s, SkipWs(s, 1))
    IN  IF x.ok /\ SkipWs(s, x.end) = Len(s) + 1 THEN x ELSE JFail

-----------------------------------------------------------------------------
(* json.dumps(x, separators=(',', ':')): how a producer writes the chunk *)

RECURSIVE DecDigits(_)
DecDigits(n) == IF n < 10 THEN <<48 + n>> ELSE Append(DecDigits(n \div 10), 48 + (n % 10))

RECURSIVE json_dumps(_), DumpItems(_, _), DumpPairs(_, _)
json_dumps(x) ==
    CASE x.t = "int" -> IF x.v < 0 THEN <<45>> \o DecDigits(0 - x.v) ELSE DecDigits(x.v)
      [] x.t = "str" -> <<34>> \o x.v \o <<34>>
      [] x.t = "arr" -> <<91>> \o DumpItems(x.v, 1) \o <<93>>
      [] x.t = "obj" -> <<123>> \o DumpPairs(x.v, 1) \o <<125>>

DumpItems(a, i) ==
    IF i > Len(a) THEN <<>>
    ELSE (IF i > 1 THEN <<44>> ELSE <<>>) \o json_dumps(a[i]) \o DumpItems(a, i + 1)

DumpPairs(m, i) ==
    IF i > Len(m) THEN <<>>
    ELSE (IF i > 1 THEN <<44>> ELSE <<>>) \o <<34>> \o m[i][1] \o <<34, 58>>
         \o json_dumps(m[i][2]) \o DumpPairs(m, i + 1)

-----------------------------------------------------------------------------
(* GLBParser.parse.  Every byte the model writes is ASCII, so decode('utf-8') *)
(* changes nothing.  The outcome is the exception raised ("" when parse      *)
(* returns), f.tell() at that point, the two fields parse assigns and its    *)
(* three length locals (-1 while unread).                                    *)

ParseStart ==
    [err |-> "", pos |-> 0, json_chunk |-> None, binary_chunk |-> NoBytes,
     total_length |-> -1, json_chunk_length |-> -1, binary_chunk_length |-> -1]

\* a reader that lets later versions through
VersionOk_AtLeast(version) == version >= 2

\* if version != 2: raise
VersionOk(version) == version = 2

\* a reader that compares with <=
HasSecondChunk_Inclusive(tell, total) == tell <= total

\* if f.tell() < total_length: a second chunk is read
HasSecondChunk(tell, total) == tell < total

\* the part of parse after self.json_chunk is assigned; r holds the state so far
ParseBinary(f, r) ==
    IF ~HasSecondChunk(r.pos, r.total_length) THEN r
    ELSE LET lb == Read(f, r.pos, 4)
             p1 == r.pos + Len(lb)
             binary_chunk_type == Read(f, p1, 4)
             p2 == p1 + Len(binary_chunk_type)
         IN  IF ~CanUnpack(lb) THEN [r EXCEPT !.err = "struct.error", !.pos = p1]
             ELSE LET n == UnpackU32(lb)
                      data == Read(f, p2, n)
                  IN  IF binary_chunk_type # BIN0
                      THEN [r EXCEPT !.err = "ExpectedBinChunk", !.pos = p2,
                                     !.binary_chunk_length = n]
                      ELSE [r EXCEPT !.pos = p2 + Len(data),
                                     !.binary_chunk_length = n,
                                     !.binary_chunk = Bytes(data)]

\* the part of parse that reads the JSON chunk; r holds the state so far
ParseJson(f, r) ==
    LET lb == Read(f, r.pos, 4)
        p1 == r.pos + Len(lb)
        json_chunk_type == Read(f, p1, 4)
        p2 == p1 + Len(json_chunk_type)
    IN  IF ~CanUnpack(lb) THEN [r EXCEPT !.err = "struct.error", !.pos = p1]
        ELSE LET n == UnpackU32(lb)
                 json_data == Read(f, p2, n)
                 p3 == p2 + Len(json_data)
                 loaded == json_loads(json_data)
             IN  IF json_chunk_type # JSON
                 THEN [r EXCEPT !.err = "ExpectedJsonChunk", !.pos = p2,
                                !.json_chunk_length = n]
                 ELSE IF ~loaded.ok
                 THEN [r EXCEPT !.err = "InvalidJson", !.pos = p3,
                                !.json_chunk_length = n]
                 ELSE ParseBinary(f, [r EXCEPT !.pos = p3, !.json_chunk_length = n,
                                               !.json_chunk = loaded.val])

parse(f) ==
    LET magic == Read(f, 0, 4)
        p1 == Len(magic)
        vb == Read(f, p1, 4)
        p2 == p1 + Len(vb)
        tb == Read(f, p2, 4)
        p3 == p2 + Len(tb)
    IN  IF magic # GLTF THEN [ParseStart EXCEPT !.err = "BadMagic", !.pos = p1]
        ELSE IF ~CanUnpack(vb) THEN [ParseStart EXCEPT !.err = "struct.error", !.pos = p2]
        ELSE IF ~VersionOk(UnpackU32(vb))
        THEN [ParseStart EXCEPT !.err = "UnsupportedVersion", !.pos = p2]
        ELSE IF ~CanUnpack(tb) THEN [ParseStart EXCEPT !.err = "struct.error", !.pos = p3]
        ELSE ParseJson(f, [ParseStart EXCEPT !.pos = p3, !.total_length = UnpackU32(tb)])

-----------------------------------------------------------------------------
(* extract_json_from_glb: the outcome is the exception raised ("" when it  *)
(* returns), f.tell() at that point and the dictionary returned.           *)

EjStart == [err |-> "", pos |-> 0, val |-> None]

extract_json_from_glb(f) ==
    LET magic == Read(f, 0, 4)
        p1 == Len(magic)
        vb == Read(f, p1, 4)
        p2 == p1 + Len(vb)
        tb == Read(f, p2, 4)
        p3 == p2 + Len(tb)
        lb == Read(f, p3, 4)
        p4 == p3 + Len(lb)
        chunk_type == Read(f, p4, 4)
        p5 == p4 + Len(chunk_type)
    IN  IF magic # GLTF THEN [EjStart EXCEPT !.err = "BadMagic", !.pos = p1]
        ELSE IF ~CanUnpack(vb) THEN [EjStart EXCEPT !.err = "struct.error", !.pos = p2]
        ELSE IF UnpackU32(vb) # 2
        THEN [EjStart EXCEPT !.err = "UnsupportedVersion", !.pos = p2]
        ELSE IF ~CanUnpack(tb) THEN [EjStart EXCEPT !.err = "struct.error", !.pos = p3]
        ELSE IF ~CanUnpack(lb) THEN [EjStart EXCEPT !.err = "struct.error", !.pos = p4]
        ELSE IF chunk_type # JSON
        THEN [EjStart EXCEPT !.err = "ExpectedJsonChunk", !.pos = p5]
        ELSE LET raw == Read(f, p5, UnpackU32(lb))
                 loaded == json_loads(RStripNull(raw))
             IN  IF ~loaded.ok
                 THEN [EjStart EXCEPT !.err = "InvalidJson", !.pos = p5 + Len(raw)]
                 ELSE [EjStart EXCEPT !.pos = p5 + Len(raw), !.val = loaded.val]

-----------------------------------------------------------------------------
(* GLBParser.find_draco_buffers *)

\* a scan without the check of bufferView
Listed_AnyRecord(draco_ext) == Truthy(draco_ext)

\* if draco_ext: ... if buffer_view_idx is not None:
Listed(draco_ext) ==
    Truthy(draco_ext) /\ Get(draco_ext, K_bufferView, None).t # "none"

\* the dict appended for primitive number prim_idx of mesh number mesh_idx
DracoInfo(mesh_idx, prim_idx, draco_ext) ==
    [mesh_index |-> mesh_idx,
     primitive_index |-> prim_idx,
     buffer_view_index |-> Get(draco_ext, K_bufferView, None),
     attributes |-> Get(draco_ext, K_attributes, EmptyDict),
     indices |-> Get(draco_ext, K_indices, None)]

\* for prim_idx, primitive in enumerate(mesh.get('primitives', [])), from the
\* p-th primitive on
RECURSIVE PrimLoop(_, _, _, _)
PrimLoop(prims, mesh_idx, p, acc) ==
    IF p > Len(prims) THEN acc
    ELSE LET primitive == prims[p]
             extensions == Get(primitive, K_extensions, EmptyDict)
             draco_ext == Get(extensions, K_draco, None)
         IN  PrimLoop(prims, mesh_idx, p + 1,
                      IF Listed(draco_ext)
                      THEN Append(acc, DracoInfo(mesh_idx, p - 1, draco_ext))
                      ELSE acc)

\* for mesh_idx, mesh in enumerate(self.json_chunk['meshes']), from the m-th mesh on
RECURSIVE MeshLoop(_, _, _)
MeshLoop(meshes, m, acc) ==
    IF m > Len(meshes) THEN acc
    ELSE MeshLoop(meshes, m + 1,
                  PrimLoop(Get(meshes[m], K_primitives, EmptyList).v, m - 1, 1, acc))

\* json_chunk is a dict or None in every state of the model; `in` on None raises
find_draco_buffers(jc) ==
    IF jc.t # "obj" THEN [err |-> "TypeError", refs |-> <<>>]
    ELSE IF HasKey(jc, K_meshes)
    THEN [err |-> "", refs |-> MeshLoop(Get(jc, K_meshes, EmptyList).v, 1, <<>>)]
    ELSE [err |-> "", refs |-> <<>>]

-----------------------------------------------------------------------------
(* GLBParser.extract_draco_binary, for buffer_view_idx >= 0 *)

extract_draco_binary(jc, bc, buffer_view_idx) ==
    IF ~bc.some \/ Len(bc.val) = 0 THEN [err |-> "NoBinaryChunk", data |-> NoBytes]
    ELSE LET buffer_views == Get(jc, K_bufferViews, EmptyList).v
         IN  IF buffer_view_idx >= Len(buffer_views)
             THEN [err |-> "BufferViewOutOfRange", data |-> NoBytes]
             ELSE LET buffer_view == buffer_views[buffer_view_idx + 1]
                      buffer_idx == Get(buffer_view, K_buffer, JInt(0))
                      byte_offset == Get(buffer_view, K_byteOffset, JInt(0))
                      byte_length == Get(buffer_view, K_byteLength, None)
                      end_offset == byte_offset.v + byte_length.v
                  IN  IF buffer_idx.v # 0
                      THEN [err |-> "UnsupportedExternalBuffer", data |-> NoBytes]
                      ELSE IF byte_length.t = "none"
                      THEN [err |-> "MissingLength", data |-> NoBytes]
                      ELSE IF end_offset > Len(bc.val)
                      THEN [err |-> "RangeExceedsBuffer", data |-> NoBytes]
                      ELSE [err |-> "",
                            data |-> Bytes(PySlice(bc.val, byte_offset.v, end_offset))]

-----------------------------------------------------------------------------
(* Files: the GLB layout, a 12-byte header, the JSON chunk, an optional    *)
(* binary chunk, each chunk behind an 8-byte header                        *)

\* n payload bytes, each telling its place
Payload(n) == [i \in 1..n |-> 64 + i]

\* the padding that brings n bytes to a 4-byte boundary
PadCount(n) == (4 - (n % 4)) % 4
Padding(n, byte) == [i \in 1..PadCount(n) |-> byte]

Chunk(declared, tag, payload) == PackU32(declared) \o tag \o payload

Glb(magic, version, total, chunks) == magic \o PackU32(version) \o PackU32(total) \o chunks

\* a file as a producer that follows the format writes it
ValidGlb(doc, padByte, bin) ==
    LET text == json_dumps(doc)
        jpayload == text \o Padding(Len(text), padByte)
        chunks == Chunk(Len(jpayload), JSON, jpayload)
                  \o (IF bin.some THEN Chunk(Len(bin.val), BIN0, bin.val) ELSE <<>>)
    IN  Glb(GLTF, 2, 12 + Len(chunks), chunks)

BufferView(buffer, byteOffset, byteLength) ==
    JObj((IF buffer.t = "none" THEN <<>> ELSE << <<K_buffer, buffer>> >>)
         \o (IF byteOffset.t = "none" THEN <<>> ELSE << <<K_byteOffset, byteOffset>> >>)
         \o (IF byteLength.t = "none" THEN <<>> ELSE << <<K_byteLength, byteLength>> >>))

DracoExt(fields) == JObj(<< <<K_extensions, JObj(<< <<K_draco, JObj(fields)>> >>)>> >>)

\* the scene descriptions of the files of Init
EmptyScene == EmptyDict
ViewScene == JObj(<< <<K_bufferViews, JArr(<<BufferView(JInt(0), JInt(0), JInt(0))>>)>> >>)
MeshScene ==
    JObj(<< <<K_meshes, JArr(<< JObj(<< <<K_primitives,
              JArr(<<DracoExt(<< <<K_bufferView, JInt(0)>> >>)>>)>> >>) >>)>> >>)
Docs == {EmptyScene, ViewScene, MeshScene}

\* the second chunk a file may carry: none, a binary chunk whose declared
\* length is right or 4 too large, a chunk under the wrong tag
NoSecond == [present |-> FALSE, tag |-> BIN0, payload |-> <<>>, extra |-> 0]
Seconds ==
    {NoSecond}
    \cup {[present |-> TRUE, tag |-> BIN0, payload |-> Payload(n), extra |-> x] :
            n \in {0, MaxBin}, x \in {0, 4}}
    \cup {[present |-> TRUE, tag |-> JSON, payload |-> Payload(MaxBin), extra |-> 0]}

\* where a file may end: nowhere short, or inside the header, a chunk header
\* or a payload (aj: the offset after the JSON payload)
Cuts(n, aj) == {n} \cup ({0, 3, 6, 10, 14, 18, aj - 1, aj + 2, aj + 6, n - 1} \cap 0..n)

Fresh ==
    /\ pc = "new"
    /\ err = ""
    /\ fpos = 0
    /\ header = None
    /\ json_chunk = None
    /\ binary_chunk = NoBytes
    /\ total_length = -1
    /\ json_chunk_length = -1
    /\ binary_chunk_length = -1

NoRet == [op |-> "none", arg |-> 0, err |-> "", pos |-> 0,
          refs |-> <<>>, data |-> NoBytes, json |-> None]

\* any file: each field of the layout right or wrong, the file whole or cut
Init ==
    /\ Fresh
    /\ ret = NoRet
    /\ \E doc \in Docs, padByte \in {0, 32}, magic \in {GLTF, <<103, 108, 84, 88>>},
          version \in {1, 2, 3}, totalKind \in {"exact", "zero", "json", "short", "over"},
          jextra \in {0, 4}, jtag \in {JSON, BIN0}, second \in Seconds :
        LET text == json_dumps(doc)
            jpayload == text \o Padding(Len(text), padByte)
            aj == 20 + Len(jpayload)
            chunks == Chunk(Len(jpayload) + jextra, jtag, jpayload)
                      \o (IF second.present
                          THEN Chunk(Len(second.payload) + second.extra, second.tag,
                                     second.payload)
                          ELSE <<>>)
            n == 12 + Len(chunks)
            total == CASE totalKind = "exact" -> n
                       [] totalKind = "zero" -> 0
                       [] totalKind = "json" -> aj
                       [] totalKind = "short" -> aj + 4
                       [] totalKind = "over" -> n + 4
            full == Glb(magic, version, total, chunks)
        IN  \E cut \in Cuts(n, aj) :
              /\ file = SubSeq(full, 1, cut)
              /\ orig = [doc |-> doc,
                         bin |-> IF second.present THEN Bytes(second.payload) ELSE NoBytes,
                         padByte |-> padByte,
                         padCount |-> PadCount(Len(text)),
                         valid |-> /\ magic = GLTF /\ version = 2 /\ totalKind = "exact"
                                   /\ jextra = 0 /\ jtag = JSON /\ cut = n
                                   /\ second.present => (second.tag = BIN0 /\ second.extra = 0)]

-----------------------------------------------------------------------------
(* The calls *)

\* glb_parser.parse() on a fresh GLBParser.  The two scripts are separate
\* programs: a behaviour runs one of them on the file.
Parse ==
    /\ pc = "new"
    /\ ret.op = "none"
    /\ LET r == parse(file)
       IN  /\ pc' = IF r.err = "" THEN "parsed" ELSE "failed"
           /\ err' = r.err
           /\ fpos' = r.pos
           /\ json_chunk' = r.json_chunk
           /\ binary_chunk' = r.binary_chunk
           /\ total_length' = r.total_length
           /\ json_chunk_length' = r.json_chunk_length
           /\ binary_chunk_length' = r.binary_chunk_length
    /\ UNCHANGED <<file, orig, header, ret>>

\* extract_json_from_glb(glb_path), the other reader of the same file
ExtractJson ==
    /\ pc = "new"
    /\ ret.op = "none"
    /\ LET r == extract_json_from_glb(file)
       IN  ret' = [NoRet EXCEPT !.op = "extract_json_from_glb", !.err = r.err,
                                !.pos = r.pos, !.json = r.val]
    /\ UNCHANGED <<file, orig, pc, err, fpos, header, json_chunk, binary_chunk,
                   total_length, json_chunk_length, binary_chunk_length>>

\* glb_parser.find_draco_buffers(), after parse returned or raised
FindDracoBuffers ==
    /\ pc # "new"
    /\ LET r == find_draco_buffers(json_chunk)
       IN  ret' = [NoRet EXCEPT !.op = "find_draco_buffers", !.err = r.err, !.refs = r.refs]
    /\ UNCHANGED <<file, orig, pc, err, fpos, header, json_chunk, binary_chunk,
                   total_length, json_chunk_length, binary_chunk_length>>

\* glb_parser.extract_draco_binary(idx), after parse returned
ExtractDracoBinary(idx) ==
    /\ pc = "parsed"
    /\ LET r == extract_draco_binary(json_chunk, binary_chunk, idx)
       IN  ret' = [NoRet EXCEPT !.op = "extract_draco_binary", !.arg = idx,
                                !.err = r.err, !.data = r.data]
    /\ UNCHANGED <<file, orig, pc, err, fpos, header, json_chunk, binary_chunk,
                   total_length, json_chunk_length, binary_chunk_length>>

Next ==
    \/ Parse
    \/ ExtractJson
    \/ FindDracoBuffers

Spec == Init /\ [][Next]_vars

-----------------------------------------------------------------------------
(* Extraction: well-formed files with one buffer view, any buffer, offset  *)
(* and length, absent fields included, and any binary chunk or none        *)

Field(lo, hi) == {None} \cup {JInt(n) : n \in lo..hi}

InitExtract ==
    /\ Fresh
    /\ ret = NoRet
    /\ \E buffer \in Field(0, 1), byteOffset \in Field(-1, MaxOff),
          byteLength \in Field(-1, MaxOff),
          bin \in {NoBytes} \cup {Bytes(Payload(n)) : n \in 0..MaxBin} :
        LET doc == JObj(<< <<K_bufferViews,
                             JArr(<<BufferView(buffer, byteOffset, byteLength)>>)>> >>)
        IN  /\ file = ValidGlb(doc, 32, bin)
            /\ orig = [doc |-> doc, bin |-> bin, padByte |-> 32,
                       padCount |-> PadCount(Len(json_dumps(doc))), valid |-> TRUE]

\* the buffer view of the file, and the index after it
ExtractAny == \E idx \in 0..1 : ExtractDracoBinary(idx)

NextExtract ==
    \/ Parse
    \/ ExtractAny

SpecExtract == InitExtract /\ [][NextExtract]_vars

-----------------------------------------------------------------------------------------------------------------------------------------------------
(* Location: json_chunk as a successful parse may leave it, drawn directly *)
(* (the file behind it is left out).  A primitive is of one of five kinds; *)
(* a scene mixes two of them (its kinds "a" and "b") in every way.         *)

Attributes(n) == JObj(<< <<K_POSITION, JInt(n)>> >>)

PrimKinds == {"plain", "otherExtension", "emptyRecord", "noBufferView", "draco"}

\* primitive number p of mesh number m: a draco record's bufferView is its
\* own, and its indices is there for even p only
Primitive(kind, m, p) ==
    CASE kind = "plain" -> EmptyDict
      [] kind = "otherExtension" -> JObj(<< <<K_extensions, EmptyDict>> >>)
      [] kind = "emptyRecord" -> DracoExt(<<>>)
      [] kind = "noBufferView" -> DracoExt(<< <<K_attributes, Attributes(p)>> >>)
      [] kind = "draco" ->
            DracoExt(<< <<K_bufferView, JInt(10 * m + p)>>,
                        <<K_attributes, Attributes(p)>> >>
                     \o (IF p % 2 = 0 THEN << <<K_indices, JInt(m)>> >> ELSE <<>>))

KindSeqs == UNION {[1..n -> {"a", "b"}] : n \in 0..MaxPrims}
MeshShapes ==
    {[hasPrims |-> FALSE, kinds |-> <<>>]} \cup {[hasPrims |-> TRUE, kinds |-> k] : k \in KindSeqs}
SceneShapes ==
    {[hasMeshes |-> FALSE, meshes |-> <<>>]}
    \cup {[hasMeshes |-> TRUE, meshes |-> ms] :
            ms \in UNION {[1..n -> MeshShapes] : n \in 0..MaxMeshes}}

Mesh(shape, a, b, m) ==
    IF ~shape.hasPrims THEN EmptyDict
    ELSE JObj(<< <<K_primitives,
                   JArr([p \in 1..Len(shape.kinds) |->
                           Primitive(IF shape.kinds[p] = "a" THEN a ELSE b, m, p - 1)])>> >>)

Scene(shape, a, b) ==
    IF ~shape.hasMeshes THEN EmptyDict
    ELSE JObj(<< <<K_meshes,
                   JArr([m \in 1..Len(shape.meshes) |->
                           Mesh(shape.meshes[m], a, b, m - 1)])>> >>)

InitLocate ==
    /\ pc = "parsed"
    /\ err = ""
    /\ fpos = 0
    /\ header = None
    /\ binary_chunk = NoBytes
    /\ total_length = 0
    /\ json_chunk_length = 0
    /\ binary_chunk_length = -1
    /\ file = <<>>
    /\ ret = NoRet
    /\ \E shape \in SceneShapes, a \in PrimKinds, b \in PrimKinds :
        /\ json_chunk = Scene(shape, a, b)
        /\ orig = [doc |-> None, bin |-> NoBytes, padByte |-> 32,
                   padCount |-> 0, valid |-> TRUE]

NextLocate == FindDracoBuffers

SpecLocate == InitLocate /\ [][NextLocate]_vars

-----------------------------------------------------------------------------
(* What the file says, read off its bytes *)

MagicOk == Read(file, 0, 4) = GLTF
HasVersion == Len(file) >= 8
Version == UnpackU32(Read(file, 4, 4))

\* parse took the JSON chunk: header and tag right, the payload parsed
JsonTaken ==
    /\ pc # "new"
    /\ json_chunk_length >= 0
    /\ Read(file, 16, 4) = JSON
    /\ json_loads(Read(file, 20, json_chunk_length)).ok

\* the offset after the JSON payload as its header declares it
AfterJson == 12 + 8 + json_chunk_length

-----------------------------------------------------------------------------
(* C1..C10 *)

\* C1 (as claimed): a well-formed file whose JSON chunk is padded with null
\* bytes to a 4-byte boundary and which carries a binary chunk is parsed, and
\* json_chunk and binary_chunk are the structure and the payload written.
C1_RoundTrip ==
    (pc # "new" /\ orig.valid /\ orig.bin.some /\ orig.padByte = 0)
        => /\ pc = "parsed"
           /\ json_chunk = orig.doc
           /\ binary_chunk = orig.bin

\* C2 (as claimed): when a chunk header that parse reads declares more bytes
\* than the file has left after it, parse fails with the Truncated error.
C2_Truncated ==
    LET jsonCut == /\ pc # "new" /\ json_chunk_length >= 0
                   /\ Read(file, 16, 4) = JSON
                   /\ json_chunk_length > Len(file) - 20
        binCut == /\ pc # "new" /\ binary_chunk_length >= 0
                  /\ Read(file, AfterJson + 4, 4) = BIN0
                  /\ binary_chunk_length > Len(file) - (AfterJson + 8)
    IN  (jsonCut \/ binCut) => (pc = "failed" /\ err = "Truncated")

\* C3: in both readers a file not starting with 'glTF' fails with the
\* bad-magic error, and one with the magic and a version other than 2 fails
\* with the unsupported-version error, whatever follows; no chunk has been
\* read then (the position is inside the 12-byte header, nothing is stored).
C3_MagicVersionRejected ==
    /\ (pc # "new" /\ ~MagicOk)
          => /\ pc = "failed" /\ err = "BadMagic" /\ fpos <= 4
             /\ json_chunk_length = -1 /\ json_chunk.t = "none" /\ ~binary_chunk.some
    /\ (pc # "new" /\ MagicOk /\ HasVersion /\ Version # 2)
          => /\ pc = "failed" /\ err = "UnsupportedVersion" /\ fpos = 8
             /\ json_chunk_length = -1 /\ json_chunk.t = "none" /\ ~binary_chunk.some
    /\ (ret.op = "extract_json_from_glb" /\ ~MagicOk)
          => (ret.err = "BadMagic" /\ ret.pos <= 4 /\ ret.json.t = "none")
    /\ (ret.op = "extract_json_from_glb" /\ MagicOk /\ HasVersion /\ Version # 2)
          => (ret.err = "UnsupportedVersion" /\ ret.pos = 8 /\ ret.json.t = "none")

\* C3's case: parse has rejected a version-3 file that is whole and otherwise
\* well-formed, binary chunk included.
C3_Witness ==
    /\ pc = "failed" /\ err = "UnsupportedVersion"
    /\ MagicOk /\ Version = 3
    /\ Len(file) >= 20
    /\ Len(file) = UnpackU32(Read(file, 8, 4))
    /\ Read(file, 16, 4) = JSON
    /\ Len(file) > 20 + UnpackU32(Read(file, 12, 4)) + 8

\* C7 (as claimed): after the JSON chunk is taken, (a) with no byte left parse
\* succeeds without a binary buffer whatever the declared total length, and
\* (b) with bytes left before the declared total length a second header is
\* read, a tag other than 'BIN\0' fails with the expected-BIN-chunk error and
\* otherwise binary_chunk has exactly the declared number of bytes.
C7_SecondChunk ==
    LET left == Len(file) - AfterJson
        btag == Read(file, AfterJson + 4, 4)
    IN  /\ (JsonTaken /\ left = 0) => (pc = "parsed" /\ ~binary_chunk.some)
        /\ (JsonTaken /\ left > 0 /\ AfterJson < total_length)
              => IF btag # BIN0
                 THEN pc = "failed" /\ err = "ExpectedBinChunk"
                 ELSE /\ pc = "parsed" /\ binary_chunk.some
                      /\ Len(binary_chunk.val) = binary_chunk_length

\* C9 (as claimed): after a successful parse the declared total length is at
\* least the bytes consumed: header, JSON chunk, and binary chunk when read.
C9_TotalCoversChunks ==
    pc = "parsed"
        => total_length >= 12 + 8 + json_chunk_length
                           + (IF binary_chunk.some THEN 8 + binary_chunk_length ELSE 0)

\* C9 (amended): after a successful parse the declared total length exceeds
\* 12 + 8 + json_chunk_length when a binary chunk was read, and is at most
\* that, and at most the bytes consumed, when none was read.
C9_TotalDecidesSecondChunk ==
    pc = "parsed"
        => IF binary_chunk.some
           THEN total_length > 12 + 8 + json_chunk_length
           ELSE total_length <= 12 + 8 + json_chunk_length /\ total_length <= fpos

\* C9's case: parse succeeded and read a binary chunk although the chunks
\* add up to more than the declared total length.
C9_Witness ==
    /\ pc = "parsed" /\ binary_chunk.some
    /\ Len(binary_chunk.val) = binary_chunk_length
    /\ total_length < 12 + 8 + json_chunk_length + 8 + binary_chunk_length

\* C10 (as claimed): after a parse that failed on a fresh GLBParser,
\* json_chunk and binary_chunk are both still None.
C10_NoPartialResult ==
    pc = "failed" => (json_chunk.t = "none" /\ ~binary_chunk.some)

-----------------------------------------------------------------------------
(* Extraction, C5 C6 C8 *)

Extracted == ret.op = "extract_draco_binary"
\* parse read a binary chunk, of whatever length
BinaryRead == pc = "parsed" /\ binary_chunk_length >= 0 /\ binary_chunk.some
Views == Get(json_chunk, K_bufferViews, EmptyList).v
InRange == ret.arg < Len(Views)
TheView == Views[ret.arg + 1]

\* C5 (as claimed): for a buffer view of buffer 0 with integer byteOffset
\* (0 when absent) and integer byteLength, extraction fails with the
\* range-exceeds-buffer error when byteOffset + byteLength > len(B), and a
\* result has byteLength bytes, the i-th being B[byteOffset + i].
C5_ExtractionRange ==
    (Extracted /\ BinaryRead /\ InRange
       /\ Get(TheView, K_buffer, JInt(0)).v = 0 /\ HasKey(TheView, K_byteLength))
        => LET B == binary_chunk.val
               off == Get(TheView, K_byteOffset, JInt(0)).v
               len == Get(TheView, K_byteLength, None).v
           IN  /\ off + len > Len(B) => ret.err = "RangeExceedsBuffer"
               /\ ret.err = ""
                    => /\ ret.data.some
                       /\ Len(ret.data.val) = len
                       /\ \A i \in 0..(len - 1) : ret.data.val[i + 1] = B[off + i + 1]

\* C6 (as claimed): with a binary buffer present and the index in range, a
\* buffer view whose buffer is not 0 fails with the unsupported-external-
\* buffer error whatever its byteOffset and byteLength, and returns no bytes.
C6_ExternalBufferRejected ==
    (Extracted /\ BinaryRead /\ InRange /\ Get(TheView, K_buffer, JInt(0)).v # 0)
        => (ret.err = "UnsupportedExternalBuffer" /\ ~ret.data.some)

\* C8 (as claimed): extraction fails with the no-binary-chunk error exactly
\* when parse read no binary chunk; after an empty binary chunk the buffer
\* view {buffer 0, byteOffset 0, byteLength 0} yields the empty byte string.
C8_NoBinaryChunkOnlyWhenAbsent ==
    Extracted
        => /\ (ret.err = "NoBinaryChunk") <=> ~BinaryRead
           /\ (BinaryRead /\ Len(binary_chunk.val) = 0 /\ InRange
                 /\ TheView = BufferView(JInt(0), JInt(0), JInt(0)))
                => (ret.err = "" /\ ret.data = Bytes(<<>>))

-----------------------------------------------------------------------------
(* Location, C4 *)

Found == ret.op = "find_draco_buffers"
Meshes == Get(json_chunk, K_meshes, EmptyList).v
PrimsOf(m) == Get(Meshes[m + 1], K_primitives, EmptyList).v
ExtensionsOf(m, p) == Get(PrimsOf(m)[p + 1], K_extensions, EmptyDict)
RecordOf(m, p) == Get(ExtensionsOf(m, p), K_draco, None)
Positions == {mp \in (0..MaxMeshes) \X (0..MaxPrims) :
                mp[1] < Len(Meshes) /\ mp[2] < Len(PrimsOf(mp[1]))}

\* the primitive carries the KHR_draco_mesh_compression record
Carries(m, p) == HasKey(ExtensionsOf(m, p), K_draco)
\* ... and the record has a bufferView
CarriesView(m, p) == Carries(m, p) /\ HasKey(RecordOf(m, p), K_bufferView)

\* the call returned, with one entry per primitive satisfying Q and no other,
\* in ascending (mesh index, primitive index) order, each with the fields of
\* its primitive's record
LocatesExactly(Q(_, _)) ==
    LET refs == ret.refs
    IN  /\ ret.err = ""
        /\ \A mp \in Positions :
              Q(mp[1], mp[2]) <=> \E i \in 1..Len(refs) :
                                     /\ refs[i].mesh_index = mp[1]
                                     /\ refs[i].primitive_index = mp[2]
        /\ \A i \in 1..Len(refs) :
              /\ <<refs[i].mesh_index, refs[i].primitive_index>> \in Positions
              /\ LET rec == RecordOf(refs[i].mesh_index, refs[i].primitive_index)
                 IN  /\ HasKey(rec, K_bufferView)
                     /\ refs[i].buffer_view_index = Get(rec, K_bufferView, None)
                     /\ refs[i].attributes = Get(rec, K_attributes, EmptyDict)
                     /\ refs[i].indices = Get(rec, K_indices, None)
        /\ \A i \in 1..Len(refs), j \in 1..Len(refs) :
              i < j => \/ refs[i].mesh_index < refs[j].mesh_index
                       \/ /\ refs[i].mesh_index = refs[j].mesh_index
                          /\ refs[i].primitive_index < refs[j].primitive_index

\* C4 (as claimed): find_draco_buffers returns exactly one entry per
\* primitive that carries the extension record, in declaration order, with
\* that primitive's fields, and never fails.
C4_LocatesEveryRecord == Found => LocatesExactly(Carries)

\* C4 (amended): ... exactly one entry per primitive whose extension record
\* has a bufferView; a primitive whose record is empty or lacks bufferView
\* has no entry.
C4_LocatesRecordsWithView == Found => LocatesExactly(CarriesView)

\* C4's case: two meshes located, with a primitive whose record lacks
\* bufferView passed over between two located ones.
C4_Witness ==
    /\ Found
    /\ Len(ret.refs) >= 3
    /\ ret.refs[1].mesh_index = 0 /\ ret.refs[1].primitive_index = 0
    /\ ret.refs[2].mesh_index = 1 /\ ret.refs[2].primitive_index = 0
    /\ Len(PrimsOf(0)) = 2 /\ Carries(0, 1) /\ ~CarriesView(0, 1)

====
